---- MODULE Spec2Model ----
(***************************************************************************)
(* Model of the Subscriber of zero-color/pm (subscriber.go): the registry  *)
(* of subscription handlers guarded by an RWMutex, the concurrent          *)
(* registration through HandleSubscriptionFunc / HandleSubscriptionFuncMap,*)
(* Run, which starts one receiving goroutine per registered subscription   *)
(* and wraps the handler in the configured interceptors, and Close.        *)
(***************************************************************************)
EXTENDS Integers, Sequences, FiniteSets, TLC

(* ------------------------------ bounds -------------------------------- *)

\* goroutines that each make one HandleSubscriptionFunc call
NumCallers == 3
\* calls of Run
MaxRuns == 2
\* messages published to the broker
MaxMsgs == 2
\* callbacks one Receive runs at the same time
MaxOutstanding == 2
\* length of the configured interceptor list
MaxInterceptors == 2

(* ------------------------------ values -------------------------------- *)

\* calls of Enqueue on the batch aggregator
MaxEnqueues == 3

\* largest item count per batch that is configured
MaxCount == 2

\* largest item size, and largest per-item maximum that is configured
MaxSize == 2

\* largest buffered-size ceiling that is configured
MaxBuffered == 3

Callers == 1..NumCallers

\* *pubsub.Subscriber handles; two distinct handles may name one subscription
Subscriptions == {"x1", "x2", "y1", "z1"}

SubscriptionIDs == {"x", "y", "z"}

\* subscription.ID()
ID(subscription) ==
    IF subscription \in {"x1", "x2"} THEN "x"
    ELSE IF subscription = "y1" THEN "y" ELSE "z"

\* the interceptors a Subscriber can be configured with: interceptor k
\* overwrites the attribute "intercepted" of the message with k, then calls next
InterceptorNames == {"A", "B"}

RECURSIVE SeqsUpTo(_, _)
SeqsUpTo(S, n) ==
    IF n = 0 THEN {<<>>}
    ELSE LET shorter == SeqsUpTo(S, n - 1)
         IN  shorter \cup {Append(s, e) : s \in shorter, e \in S}

NilError == [kind |-> "nil", id |-> ""]

\* mutant: the error does not name the subscription
AlreadyRegisteredUnnamed(id) == [kind |-> "already registered", id |-> ""]

\* fmt.Errorf("handler for subscription '%s' is already registered", id)
AlreadyRegistered(id) == [kind |-> "already registered", id |-> id]

\* the error a registered handler returns for a message it rejects
HandlerError == [kind |-> "handler", id |-> ""]

\* the error Receive returns when pulling fails for a reason other than the
\* cancellation of its context
PullError == [kind |-> "pull", id |-> ""]

\* pubsub's error of a second Receive on a handle whose Receive is active
ReceiveInProgress == [kind |-> "receive in progress", id |-> ""]

(* the batch aggregator as it is constructed *)

\* the configurations: item count per batch, per-item maximum size, ceiling
\* of the total buffered size (the delay is the time at which DelayFlush fires)
Configurations ==
    [count : 1..MaxCount,
     itemMax : {MaxSize - 1, MaxSize},
     bufMax : {MaxBuffered - 1, MaxBuffered}]

\* an aggregator with nothing buffered; item i is the i-th call of Enqueue
NewAggregator(conf) ==
    [conf |-> conf,
     sizes |-> <<>>,        \* size of item i
     ret |-> <<>>,          \* what Enqueue returned for item i at call time
     results |-> <<>>,      \* the resolutions of the result slot of item i
     open |-> <<>>,         \* the open batch
     closed |-> <<>>,       \* closed batches waiting for dispatch
     busy |-> <<>>,         \* the batch the dispatch collaborator is processing
     nclosed |-> 0,
     ndispatched |-> 0,
     shutdown |-> FALSE]

VARIABLES
    subscriptionHandlers,   \* s.subscriptionHandlers: id -> subscriptionHandler
    mu,                     \* s.mu, the RWMutex
    opts,                   \* s.opts.subscriptionInterceptors
    cancel,                 \* s.cancel: 0 is nil, else the context it cancels
    pc,                     \* position of each caller in HandleSubscriptionFunc
    arg,                    \* the subscription handle each caller registers
    ret,                    \* what each caller's HandleSubscriptionFunc returned
    eg,                     \* the errgroup of the HandleSubscriptionFuncMap call
    ctxCount,               \* contexts made by Run so far
    cancelled,              \* contexts whose cancel function has been called
    tasks,                  \* the goroutines Run started, by <<context, id>>
    receiveActive,          \* handles with a Receive in progress
    queue,                  \* broker: undelivered messages of each subscription
    published,              \* messages published so far
    closed,                 \* Close has cancelled a context
    handled,                \* record of the completed handler invocations
    agg,                    \* the batch aggregator of the batch handler
    fatal,                  \* the Go runtime has aborted the process
    loops                   \* the Run calls inside their range loop, by context

vars == <<subscriptionHandlers, mu, opts, cancel, pc, arg, ret, eg, ctxCount,
          cancelled, tasks, receiveActive, queue, published, closed, handled,
          agg, fatal, loops>>

regVars == <<subscriptionHandlers, mu, pc, arg, ret, eg>>
runVars == <<cancel, ctxCount, cancelled, tasks, receiveActive, queue,
             published, closed, handled>>

(* ------------------------- NewSubscriber ------------------------------ *)

Init ==
    /\ subscriptionHandlers = <<>>
    /\ mu = [readerCount |-> 0, writer |-> 0, locked |-> FALSE]
    /\ opts \in SeqsUpTo(InterceptorNames, MaxInterceptors)
    /\ cancel = 0
    /\ pc = [c \in Callers |-> "idle"]
    /\ arg = [c \in Callers |-> "x1"]
    /\ ret = [c \in Callers |-> NilError]
    /\ eg = [state |-> "idle", members |-> {}, err |-> NilError]
    /\ ctxCount = 0
    /\ cancelled = {}
    /\ tasks = <<>>
    /\ receiveActive = {}
    /\ queue = [id \in SubscriptionIDs |-> <<>>]
    /\ published = 0
    /\ closed = FALSE
    /\ handled = {}
    /\ agg = NewAggregator([count |-> 1, itemMax |-> 1, bufMax |-> 1])
    /\ fatal = FALSE
    /\ loops = <<>>

(* --------------------------- sync.RWMutex ----------------------------- *)

\* RLock blocks while a writer holds the lock or is waiting for it
CanRLock(m) == m.writer = 0

RLock(m) == [m EXCEPT !.readerCount = @ + 1]

RUnlock(m) == [m EXCEPT !.readerCount = @ - 1]

\* Lock first announces the writer, which stops new readers ...
CanAnnounce(m) == m.writer = 0

Announce(m, c) == [m EXCEPT !.writer = c]

\* ... and then waits until the readers that hold the lock have left
CanLock(m, c) == m.writer = c /\ ~m.locked /\ m.readerCount = 0

Lock(m) == [m EXCEPT !.locked = TRUE]

Unlock(m) == [m EXCEPT !.writer = 0, !.locked = FALSE]

(* ---------------------- HandleSubscriptionFunc ------------------------ *)

\* the entry a call of caller c stores: the handle and the caller's closure f
Entry(c) == [subscription |-> arg[c], handleFunc |-> c]

\* a goroutine of the errgroup returns: the first non-nil error is kept
EgDone(c, err) ==
    IF c \in eg.members /\ err /= NilError /\ eg.err = NilError
    THEN [eg EXCEPT !.err = err]
    ELSE eg

\* a caller enters HandleSubscriptionFunc(subscription, f)
Call(c, subscription) ==
    /\ ~fatal
    /\ pc[c] = "idle"
    /\ \A d \in Callers : d < c => pc[d] /= "idle"
    /\ pc' = [pc EXCEPT ![c] = "rlock"]
    /\ arg' = [arg EXCEPT ![c] = subscription]
    /\ UNCHANGED <<subscriptionHandlers, mu, ret, eg, opts>>
    /\ UNCHANGED runVars
    /\ UNCHANGED <<agg, fatal, loops>>

\* s.mu.RLock(); if _, ok := s.subscriptionHandlers[id]; ok { return error }
\* the error path returns with the read lock still held
CheckRegistered(c) ==
    /\ ~fatal
    /\ pc[c] = "rlock"
    /\ CanRLock(mu)
    /\ mu' = RLock(mu)
    /\ IF ID(arg[c]) \in DOMAIN subscriptionHandlers
       THEN /\ ret' = [ret EXCEPT ![c] = AlreadyRegistered(ID(arg[c]))]
            /\ pc' = [pc EXCEPT ![c] = "done"]
            /\ eg' = EgDone(c, AlreadyRegistered(ID(arg[c])))
       ELSE /\ pc' = [pc EXCEPT ![c] = "runlock"]
            /\ UNCHANGED <<ret, eg>>
    /\ UNCHANGED <<subscriptionHandlers, arg, opts>>
    /\ UNCHANGED runVars
    /\ UNCHANGED <<agg, fatal, loops>>

\* s.mu.RUnlock()
ReleaseRead(c) ==
    /\ ~fatal
    /\ pc[c] = "runlock"
    /\ mu' = RUnlock(mu)
    /\ pc' = [pc EXCEPT ![c] = "lock"]
    /\ UNCHANGED <<subscriptionHandlers, arg, ret, eg, opts>>
    /\ UNCHANGED runVars
    /\ UNCHANGED <<agg, fatal, loops>>

\* s.mu.Lock(), first half: the writer is pending
LockPending(c) ==
    /\ ~fatal
    /\ pc[c] = "lock"
    /\ CanAnnounce(mu)
    /\ mu' = Announce(mu, c)
    /\ pc' = [pc EXCEPT ![c] = "lockwait"]
    /\ UNCHANGED <<subscriptionHandlers, arg, ret, eg, opts>>
    /\ UNCHANGED runVars
    /\ UNCHANGED <<agg, fatal, loops>>

\* s.mu.Lock(), second half: the writer holds the lock
LockAcquired(c) ==
    /\ ~fatal
    /\ pc[c] = "lockwait"
    /\ CanLock(mu, c)
    /\ mu' = Lock(mu)
    /\ pc' = [pc EXCEPT ![c] = "insert"]
    /\ UNCHANGED <<subscriptionHandlers, arg, ret, eg, opts>>
    /\ UNCHANGED runVars
    /\ UNCHANGED <<agg, fatal, loops>>

\* mutant: the insert replaces the map by one that holds the new entry alone
StoreAlone(handlers, id, entry) == [k \in {id} |-> entry]

\* the map after s.subscriptionHandlers[id] = &subscriptionHandler{...}
Store(handlers, id, entry) ==
    [k \in DOMAIN handlers \cup {id} |-> IF k = id THEN entry ELSE handlers[k]]

\* s.subscriptionHandlers[subscription.ID()] = &subscriptionHandler{subscription, f}
Insert(c) ==
    /\ ~fatal
    /\ pc[c] = "insert"
    /\ subscriptionHandlers' = Store(subscriptionHandlers, ID(arg[c]), Entry(c))
    /\ pc' = [pc EXCEPT ![c] = "unlock"]
    /\ UNCHANGED <<mu, arg, ret, eg, opts>>
    /\ UNCHANGED runVars
    /\ UNCHANGED <<agg, fatal, loops>>

\* s.mu.Unlock(); return nil
ReleaseWrite(c) ==
    /\ ~fatal
    /\ pc[c] = "unlock"
    /\ mu' = Unlock(mu)
    /\ pc' = [pc EXCEPT ![c] = "done"]
    /\ ret' = [ret EXCEPT ![c] = NilError]
    /\ eg' = EgDone(c, NilError)
    /\ UNCHANGED <<subscriptionHandlers, arg, opts>>
    /\ UNCHANGED runVars
    /\ UNCHANGED <<agg, fatal, loops>>

(* --------------------- HandleSubscriptionFuncMap ---------------------- *)

\* the maps a call can pass: distinct handles, each run by its own goroutine
FuncMaps ==
    LET idle == {c \in Callers : pc[c] = "idle"}
    IN  UNION {{f \in [W -> Subscriptions] :
                    \A a, b \in W : a /= b => f[a] /= f[b]} : W \in SUBSET idle}

\* for sub, f := range funcMap { eg.Go(func() error { return s.HandleSubscriptionFunc(sub, f) }) }
MapCall ==
    /\ ~fatal
    /\ eg.state = "idle"
    /\ \E funcMap \in FuncMaps :
        /\ pc' = [c \in Callers |-> IF c \in DOMAIN funcMap THEN "rlock" ELSE pc[c]]
        /\ arg' = [c \in Callers |-> IF c \in DOMAIN funcMap THEN funcMap[c] ELSE arg[c]]
        /\ eg' = [state |-> "waiting", members |-> DOMAIN funcMap, err |-> NilError]
    /\ UNCHANGED <<subscriptionHandlers, mu, ret, opts>>
    /\ UNCHANGED runVars
    /\ UNCHANGED <<agg, fatal, loops>>

\* return eg.Wait(): returns once every goroutine of the group has returned
MapWait ==
    /\ ~fatal
    /\ eg.state = "waiting"
    /\ \A c \in eg.members : pc[c] = "done"
    /\ eg' = [eg EXCEPT !.state = "returned"]
    /\ UNCHANGED <<subscriptionHandlers, mu, pc, arg, ret, opts>>
    /\ UNCHANGED runVars
    /\ UNCHANGED <<agg, fatal, loops>>

(* ------------------------------- Run ---------------------------------- *)

\* mutant: the interceptor is applied to its own result
WrapTwice(interceptor, next) ==
    [next EXCEPT !.layers = <<interceptor, interceptor>> \o @]

\* interceptor(&subscriptionInfo, next): the handler that runs the
\* interceptor's logic around next
Wrap(interceptor, next) == [next EXCEPT !.layers = <<interceptor>> \o @]

\* mutant: the loop runs from the first interceptor to the last
RECURSIVE ApplyInterceptorsAscending(_, _, _)
ApplyInterceptorsAscending(interceptors, i, last) ==
    IF i < 1 THEN last
    ELSE ApplyInterceptorsAscending(interceptors, i - 1,
             Wrap(interceptors[Len(interceptors) - i + 1], last))

\* last := h.handleFunc
\* for i := len(interceptors) - 1; i >= 0; i-- { last = interceptors[i](&info, last) }
RECURSIVE ApplyInterceptors(_, _, _)
ApplyInterceptors(interceptors, i, last) ==
    IF i < 1 THEN last
    ELSE ApplyInterceptors(interceptors, i - 1, Wrap(interceptors[i], last))

EffectiveHandler(interceptors, handleFunc) ==
    ApplyInterceptors(interceptors, Len(interceptors),
                      [layers |-> <<>>, handleFunc |-> handleFunc])

\* the error a registered handleFunc returns for message m: the handlers of
\* this model reject the messages with an odd number and accept the others
HandleFunc(handleFunc, m) == IF m.n % 2 = 1 THEN HandlerError ELSE NilError

(* pm_autoack *)

\* mutant: the message is acked whatever next returned
AutoAckAlways(err, m) == << [ev |-> "ack", by |-> "autoack", attr |-> m.attr] >>

\* if err != nil { m.Nack() } else { m.Ack() }
AutoAck(err, m) ==
    IF err /= NilError
    THEN << [ev |-> "nack", by |-> "autoack", attr |-> m.attr] >>
    ELSE << [ev |-> "ack", by |-> "autoack", attr |-> m.attr] >>

(* pm_slog *)

\* the interceptors pm_slog.SubscriptionInterceptor(logger, opt...) returns
\* for three configurations: a logger whose handler is enabled from INFO, one
\* enabled from ERROR, and a logger enabled from DEBUG with a log decider
\* that always returns false
SlogInterceptors == {"slog.info", "slog.error", "slog.never"}

Levels == <<"DEBUG", "INFO", "WARN", "ERROR">>

Rank(level) == CHOOSE i \in 1..Len(Levels) : Levels[i] = level

\* the level the handler of the interceptor's logger is enabled from
LoggerLevel(interceptor) ==
    CASE interceptor = "slog.info" -> "INFO"
      [] interceptor = "slog.error" -> "ERROR"
      [] OTHER -> "DEBUG"

\* func (h *testHandler) Enabled(_, level) bool { return level >= h.level }
Enabled(interceptor, level) == Rank(level) >= Rank(LoggerLevel(interceptor))

\* pm_logging.DefaultLogDecider
DefaultLogDecider(err) == TRUE

\* opts.shouldLog: DefaultLogDecider unless WithLogDecider replaced it
ShouldLog(interceptor, err) ==
    IF interceptor = "slog.never" THEN FALSE ELSE DefaultLogDecider(err)

\* logger.ErrorContext / logger.InfoContext: the record reaches the handler
\* when the handler is enabled for its level
LogContext(interceptor, level) ==
    IF Enabled(interceptor, level)
    THEN << [ev |-> "log", by |-> interceptor, attr |-> level] >>
    ELSE << >>

\* mutant: the message producer logs at INFO whatever the error
DefaultMessageProducerInfo(interceptor, err) == LogContext(interceptor, "INFO")

\* if err != nil { logger.ErrorContext(...) } else { logger.InfoContext(...) }
DefaultMessageProducer(interceptor, err) ==
    IF err /= NilError
    THEN LogContext(interceptor, "ERROR")
    ELSE LogContext(interceptor, "INFO")

\* if opts.shouldLog(info, err) { opts.messageProducer(...) }
SlogFinished(interceptor, err) ==
    IF ShouldLog(interceptor, err)
    THEN DefaultMessageProducer(interceptor, err)
    ELSE << >>

\* last(ctx, m): what happens, in order, when the handler is called on m, and
\* the error the call returns. An interceptor of the tests writes its name to
\* the attribute, calls next, and returns next's error; pm_autoack and pm_slog
\* call next and act on its error; the registered handleFunc sees the
\* attribute the message then carries.
RECURSIVE Invoke(_, _)
Invoke(handler, m) ==
    IF handler.layers = <<>>
    THEN [trace |-> << [ev |-> "handle", by |-> handler.handleFunc, attr |-> m.attr] >>,
          err |-> HandleFunc(handler.handleFunc, m)]
    ELSE LET interceptor == Head(handler.layers)
             next == [handler EXCEPT !.layers = Tail(@)]
         IN  IF interceptor = "autoack"
             THEN LET r == Invoke(next, m)
                  IN  [trace |-> r.trace \o AutoAck(r.err, m), err |-> r.err]
             ELSE IF interceptor \in SlogInterceptors
             THEN LET r == Invoke(next, m)
                  IN  [trace |-> r.trace \o SlogFinished(interceptor, r.err),
                       err |-> r.err]
             ELSE LET r == Invoke(next, [m EXCEPT !.attr = interceptor])
                  IN  [trace |-> << [ev |-> "pre", by |-> interceptor,
                                     attr |-> interceptor] >>
                                 \o r.trace
                                 \o << [ev |-> "post", by |-> interceptor,
                                        attr |-> interceptor] >>,
                       err |-> r.err]

\* mutant: the goroutine closes over the loop variable, so every goroutine
\* of a Run uses the handler the loop ended on
NewTaskLoopVariable(ctx, h) ==
    LET handler == subscriptionHandlers[
                       CHOOSE id \in DOMAIN subscriptionHandlers : TRUE]
    IN  [ctx |-> ctx,
         subscription |-> handler.subscription,
         handleFunc |-> handler.handleFunc,
         info |-> [SubscriptionID |-> ID(h.subscription)],
         last |-> [layers |-> <<>>, handleFunc |-> handler.handleFunc],
         pc |-> "build",
         inflight |-> {},
         err |-> NilError]

\* the goroutine Run starts for one registered handler
NewTask(ctx, h) ==
    [ctx |-> ctx,
     subscription |-> h.subscription,
     handleFunc |-> h.handleFunc,
     info |-> [SubscriptionID |-> ID(h.subscription)],
     last |-> [layers |-> <<>>, handleFunc |-> h.handleFunc],
     pc |-> "build",
     inflight |-> {},
     err |-> NilError]

\* the registrations that are at the map assignment of line 53: Run takes no
\* lock, so the write lock they hold does not keep its range out
RacingWrites == {c \in Callers : pc[c] = "insert"}

\* ctx, cancel := context.WithCancel(ctx); s.cancel = cancel, and the range
\* over s.subscriptionHandlers begins: the entries the map holds now are the
\* ones the range is bound to yield
Run ==
    /\ ~fatal
    /\ ctxCount < MaxRuns
    /\ ctxCount' = ctxCount + 1
    /\ cancel' = ctxCount + 1
    /\ loops' = [c \in DOMAIN loops \cup {ctxCount + 1} |->
                    IF c \in DOMAIN loops THEN loops[c]
                    ELSE [initial |-> DOMAIN subscriptionHandlers, yielded |-> {}]]
    /\ UNCHANGED <<cancelled, tasks, receiveActive, queue, published, closed,
                   handled>>
    /\ UNCHANGED <<opts>>
    /\ UNCHANGED regVars
    /\ UNCHANGED <<agg, fatal>>

\* the entries the range can find under id: the one the map holds and, the
\* range being unsynchronised, the one a registration is assigning
Visible(id) ==
    (IF id \in DOMAIN subscriptionHandlers
     THEN {subscriptionHandlers[id]} ELSE {})
    \cup {Entry(c) : c \in {d \in RacingWrites : ID(arg[d]) = id}}

NoEntry == [subscription |-> "", handleFunc |-> 0]

\* What one step of `range s.subscriptionHandlers` in the Run of context ctx
\* can do. It yields an entry it has not yielded; an entry stored after the
\* range began is yielded or skipped. It ends once every entry the map held
\* when the range began has been yielded. While a registration is at the map
\* assignment the step and the assignment are a data race on a Go map, and
\* the runtime can abort the process with
\* "fatal error: concurrent map iteration and map write".
RangeOutcomes(ctx) ==
    UNION {{[kind |-> "yield", id |-> id, entry |-> entry] : entry \in Visible(id)} :
              id \in SubscriptionIDs \ loops[ctx].yielded}
    \cup (IF loops[ctx].initial \subseteq loops[ctx].yielded
          THEN {[kind |-> "end", id |-> "", entry |-> NoEntry]} ELSE {})
    \cup (IF RacingWrites /= {}
          THEN {[kind |-> "fatal", id |-> "", entry |-> NoEntry]} ELSE {})

\* for _, handler := range s.subscriptionHandlers { go func() {...}() }
\* one iteration of the loop, or its end, in which Run returns
RunRange(ctx) ==
    /\ ~fatal
    /\ ctx \in DOMAIN loops
    /\ \E outcome \in RangeOutcomes(ctx) :
           /\ fatal' = (outcome.kind = "fatal")
           /\ tasks' = IF outcome.kind = "yield"
                       THEN [k \in DOMAIN tasks \cup {<<ctx, outcome.id>>} |->
                                IF k \in DOMAIN tasks THEN tasks[k]
                                ELSE NewTask(ctx, outcome.entry)]
                       ELSE tasks
           /\ loops' = IF outcome.kind = "yield"
                       THEN [loops EXCEPT ![ctx].yielded = @ \cup {outcome.id}]
                       ELSE IF outcome.kind = "end"
                       THEN [c \in DOMAIN loops \ {ctx} |-> loops[c]]
                       ELSE loops
    /\ UNCHANGED <<cancel, ctxCount, cancelled, receiveActive, queue, published,
                   closed, handled, opts>>
    /\ UNCHANGED regVars
    /\ UNCHANGED agg

\* the goroutine wraps h.handleFunc in the interceptors
BuildHandler(k) ==
    /\ ~fatal
    /\ k \in DOMAIN tasks
    /\ tasks[k].pc = "build"
    /\ tasks' = [tasks EXCEPT ![k].last = EffectiveHandler(opts, tasks[k].handleFunc),
                              ![k].pc = "receive"]
    /\ UNCHANGED <<cancel, ctxCount, cancelled, receiveActive, queue, published,
                   closed, handled, opts>>
    /\ UNCHANGED regVars
    /\ UNCHANGED <<agg, fatal, loops>>

\* h.subscription.Receive(ctx, callback) is entered; a handle that is already
\* receiving refuses, the goroutine logs the error and ends
Receive(k) ==
    /\ ~fatal
    /\ k \in DOMAIN tasks
    /\ tasks[k].pc = "receive"
    /\ IF tasks[k].subscription \in receiveActive
       THEN /\ tasks' = [tasks EXCEPT ![k].pc = "exited",
                                      ![k].err = ReceiveInProgress]
            /\ UNCHANGED receiveActive
       ELSE /\ tasks' = [tasks EXCEPT ![k].pc = "receiving"]
            /\ receiveActive' = receiveActive \cup {tasks[k].subscription}
    /\ UNCHANGED <<cancel, ctxCount, cancelled, queue, published, closed,
                   handled, opts>>
    /\ UNCHANGED regVars
    /\ UNCHANGED <<agg, fatal, loops>>

\* Receive pulls the next message and starts the callback: _ = last(ctx, m)
Deliver(k) ==
    /\ ~fatal
    /\ k \in DOMAIN tasks
    /\ tasks[k].pc = "receiving"
    /\ tasks[k].ctx \notin cancelled
    /\ Cardinality(tasks[k].inflight) < MaxOutstanding
    /\ LET id == ID(tasks[k].subscription)
       IN  /\ queue[id] /= <<>>
           /\ tasks' = [tasks EXCEPT ![k].inflight = @ \cup {Head(queue[id])}]
           /\ queue' = [queue EXCEPT ![id] = Tail(@)]
    /\ UNCHANGED <<cancel, ctxCount, cancelled, receiveActive, published,
                   closed, handled, opts>>
    /\ UNCHANGED regVars
    /\ UNCHANGED <<agg, fatal, loops>>

\* mutant: the callback nacks the message when the handler returned an error
CallbackNackOnError(err) ==
    IF err /= NilError THEN << "nack" >> ELSE << >>

\* func(ctx, m) { _ = last(ctx, m) }: what the callback itself does to the
\* message with the error last returned, which is nothing
Callback(err) == << >>

\* the callback of message m returns; its error is dropped
HandlerReturn(k, m) ==
    /\ ~fatal
    /\ k \in DOMAIN tasks
    /\ m \in tasks[k].inflight
    /\ tasks' = [tasks EXCEPT ![k].inflight = @ \ {m}]
    /\ LET r == Invoke(tasks[k].last, m)
       IN  handled' = handled \cup
                        {[task |-> k, n |-> m.n, late |-> m.late, sub |-> m.sub,
                          info |-> tasks[k].info,
                          trace |-> r.trace, err |-> r.err,
                          acks |-> Callback(r.err)]}
    /\ UNCHANGED <<cancel, ctxCount, cancelled, receiveActive, queue, published,
                   closed, opts>>
    /\ UNCHANGED regVars
    /\ UNCHANGED <<agg, fatal, loops>>

\* Receive returns nil once its context is done and no callback is running
ReceiveReturn(k) ==
    /\ ~fatal
    /\ k \in DOMAIN tasks
    /\ tasks[k].pc = "receiving"
    /\ tasks[k].ctx \in cancelled
    /\ tasks[k].inflight = {}
    /\ tasks' = [tasks EXCEPT ![k].pc = "exited"]
    /\ receiveActive' = receiveActive \ {tasks[k].subscription}
    /\ UNCHANGED <<cancel, ctxCount, cancelled, queue, published, closed,
                   handled, opts>>
    /\ UNCHANGED regVars
    /\ UNCHANGED <<agg, fatal, loops>>

\* mutant: a goroutine whose Receive failed cancels the context it shares
\* with the goroutines of the other subscriptions
CancelledAfterErrorShared(k) == cancelled \cup {tasks[k].ctx}

\* if err != nil { log.Printf("%+v\n", err) }: the goroutine logs the error
\* and ends; the cancelled contexts are those that were cancelled before
CancelledAfterError(k) == cancelled

\* Receive returns an error that is not the cancellation of its context (the
\* subscription was deleted, the permission was revoked); it returns once no
\* callback is running, and the goroutine logs the error and ends
ReceiveFail(k) ==
    /\ ~fatal
    /\ k \in DOMAIN tasks
    /\ tasks[k].pc = "receiving"
    /\ tasks[k].ctx \notin cancelled
    /\ tasks[k].inflight = {}
    /\ tasks' = [tasks EXCEPT ![k].pc = "exited", ![k].err = PullError]
    /\ receiveActive' = receiveActive \ {tasks[k].subscription}
    /\ cancelled' = CancelledAfterError(k)
    /\ UNCHANGED <<cancel, ctxCount, queue, published, closed, handled, opts>>
    /\ UNCHANGED regVars
    /\ UNCHANGED <<agg, fatal, loops>>

(* ------------------------------ Close --------------------------------- *)

\* mutant: Close calls s.cancel without the nil check
CancelsUnchecked(c) == {c}

\* the contexts a call of Close cancels: if s.cancel != nil { s.cancel() }
Cancels(c) == IF c /= 0 THEN {c} ELSE {}

Close ==
    /\ ~fatal
    /\ cancelled' = cancelled \cup Cancels(cancel)
    /\ closed' = (closed \/ cancel /= 0)
    /\ UNCHANGED <<cancel, ctxCount, tasks, receiveActive, queue, published,
                   handled, opts>>
    /\ UNCHANGED regVars
    /\ UNCHANGED <<agg, fatal, loops>>

(* ------------------------------ broker -------------------------------- *)

\* a message is published to the topic of subscription id
Publish(id) ==
    /\ ~fatal
    /\ published < MaxMsgs
    /\ published' = published + 1
    /\ queue' = [queue EXCEPT ![id] =
                    Append(@, [n |-> published + 1, late |-> closed, sub |-> id,
                               attr |-> "none", data |-> "test"])]
    /\ UNCHANGED <<cancel, ctxCount, cancelled, tasks, receiveActive, closed,
                   handled, opts>>
    /\ UNCHANGED regVars
    /\ UNCHANGED <<agg, fatal, loops>>

(* ----------------------------- Publisher ------------------------------ *)

\* the publish interceptors of the tests
PublishInterceptorNames == {"P1", "P2"}

\* m.Data = []byte("overwritten by ..."); return next(ctx, publisher, m)
Overwrite(interceptor, data) == interceptor

\* mutant: the last interceptor registered is the outermost layer
RECURSIVE PublisherChainReversed(_, _)
PublisherChainReversed(interceptors, data) ==
    IF interceptors = <<>> THEN data
    ELSE PublisherChainReversed(
             SubSeq(interceptors, 1, Len(interceptors) - 1),
             Overwrite(interceptors[Len(interceptors)], data))

\* the data the innermost layer publishes: the first interceptor registered
\* is the outermost layer, so it runs first and calls the next one
RECURSIVE PublisherChain(_, _)
PublisherChain(interceptors, data) ==
    IF interceptors = <<>> THEN data
    ELSE PublisherChain(Tail(interceptors), Overwrite(Head(interceptors), data))

\* NewPublisher(client, WithPublishInterceptor(interceptors...)).Publish(ctx,
\* publisher, &pubsub.Message{Data: "test"}) on the topic of subscription id
PublisherPublish(id, interceptors) ==
    /\ ~fatal
    /\ published < MaxMsgs
    /\ published' = published + 1
    /\ queue' = [queue EXCEPT ![id] =
                    Append(@, [n |-> published + 1, late |-> closed, sub |-> id,
                               attr |-> "none",
                               data |-> PublisherChain(interceptors, "test")])]
    /\ UNCHANGED <<cancel, ctxCount, cancelled, tasks, receiveActive, closed,
                   handled, opts>>
    /\ UNCHANGED regVars
    /\ UNCHANGED <<agg, fatal, loops>>

(* -------------------------- Batch Aggregator -------------------------- *)

RECURSIVE SumSizes(_, _)
SumSizes(sizes, items) ==
    IF items = <<>> THEN 0
    ELSE sizes[Head(items)] + SumSizes(sizes, Tail(items))

\* total size of the pending (accepted, not yet flushed) items
Buffered(a) == SumSizes(a.sizes, a.open)

\* mutant: Enqueue does not look at the buffered-size ceiling
AdmitNoCeiling(a, size) ==
    IF a.shutdown THEN "Shutdown"
    ELSE IF size > a.conf.itemMax THEN "OversizedItem"
    ELSE "accepted"

\* mutant: Enqueue does not look at the per-item maximum
AdmitAnySize(a, size) ==
    IF a.shutdown THEN "Shutdown"
    ELSE IF Buffered(a) + size > a.conf.bufMax THEN "BufferOverflow"
    ELSE "accepted"

\* Enqueue's call-time decision for an item of the given size
Admit(a, size) ==
    IF a.shutdown THEN "Shutdown"
    ELSE IF size > a.conf.itemMax THEN "OversizedItem"
    ELSE IF Buffered(a) + size > a.conf.bufMax THEN "BufferOverflow"
    ELSE "accepted"

\* mutant: the count trigger fires when the count is exceeded
TriggerAboveCount(a) ==
    IF Len(a.open) > a.conf.count THEN "count"
    ELSE IF a.open /= <<>> /\ Buffered(a) >= a.conf.bufMax THEN "size"
    ELSE "none"

\* the flush trigger the open batch has reached: item count or buffered size
Trigger(a) ==
    IF Len(a.open) >= a.conf.count THEN "count"
    ELSE IF a.open /= <<>> /\ Buffered(a) >= a.conf.bufMax THEN "size"
    ELSE "none"

\* a flush closes the open batch and swaps in an empty one
CloseBatch(a, trigger) ==
    [a EXCEPT !.open = <<>>,
              !.closed = Append(@, [seq |-> a.nclosed + 1, items |-> a.open,
                                    trigger |-> trigger]),
              !.nclosed = @ + 1]

\* Enqueue(item): rejected at call time, or appended to the open batch, which
\* is flushed when it reaches the count or the size threshold
Enqueue(size) ==
    /\ Len(agg.sizes) < MaxEnqueues
    /\ LET r == Admit(agg, size)
           a1 == [agg EXCEPT !.sizes = Append(@, size),
                             !.ret = Append(@, r),
                             !.results = Append(@, <<>>),
                             !.open = IF r = "accepted"
                                      THEN Append(@, Len(agg.sizes) + 1) ELSE @]
       IN  agg' = IF r = "accepted" /\ Trigger(a1) /= "none"
                  THEN CloseBatch(a1, Trigger(a1)) ELSE a1
    /\ UNCHANGED regVars
    /\ UNCHANGED runVars
    /\ UNCHANGED <<opts, fatal, loops>>

\* the oldest buffered item has waited the configured delay
DelayFlush ==
    /\ agg.open /= <<>>
    /\ agg' = CloseBatch(agg, "delay")
    /\ UNCHANGED regVars
    /\ UNCHANGED runVars
    /\ UNCHANGED <<opts, fatal, loops>>

\* mutant: the flush task takes the batch that was closed last
NextBatchNewest(a) == a.closed[Len(a.closed)]

\* the batch the flush task hands to the dispatch collaborator next
NextBatch(a) == Head(a.closed)

\* the flush task hands the next closed batch to the dispatch collaborator
StartDispatch ==
    /\ agg.busy = <<>>
    /\ agg.closed /= <<>>
    /\ LET b == NextBatch(agg)
       IN  agg' = [agg EXCEPT !.busy = << b >>,
                              !.closed = SelectSeq(@, LAMBDA c : c /= b),
                              !.ndispatched = @ + 1]
    /\ UNCHANGED regVars
    /\ UNCHANGED runVars
    /\ UNCHANGED <<opts, fatal, loops>>

\* what the dispatch collaborator can return for a batch: success, a
\* wholesale failure, or a BatchError that names some of the items
Outcomes(b) ==
    {[kind |-> "success", named |-> {}], [kind |-> "failure", named |-> {}]}
    \cup {[kind |-> "items", named |-> S] :
             S \in (SUBSET {b.items[i] : i \in 1..Len(b.items)}) \ {{}}}

\* what a result slot resolves to: success, the error the BatchError holds
\* for the item, the failure of the whole dispatch, or the shutdown error
Success == [kind |-> "success", of |-> 0]

BatchItemError(item) == [kind |-> "BatchItemError", of |-> item]

BatchDispatchFailure == [kind |-> "BatchDispatchFailure", of |-> 0]

ShutdownError == [kind |-> "Shutdown", of |-> 0]

\* mutant: a BatchError fails every item of the batch
ResolutionAllNamed(outcome, item) ==
    CASE outcome.kind = "success" -> Success
      [] outcome.kind = "failure" -> BatchDispatchFailure
      [] OTHER -> BatchItemError(item)

\* the resolution of one item of a batch whose dispatch returned outcome
Resolution(outcome, item) ==
    CASE outcome.kind = "success" -> Success
      [] outcome.kind = "failure" -> BatchDispatchFailure
      [] OTHER -> IF item \in outcome.named THEN BatchItemError(item) ELSE Success

\* the dispatch collaborator returns and every item of its batch is resolved
DispatchReturn(outcome) ==
    /\ agg.busy /= <<>>
    /\ outcome \in Outcomes(agg.busy[1])
    /\ LET items == {agg.busy[1].items[i] : i \in 1..Len(agg.busy[1].items)}
       IN  agg' = [agg EXCEPT
                      !.busy = <<>>,
                      !.results = [i \in DOMAIN @ |->
                                      IF i \in items
                                      THEN Append(@[i], Resolution(outcome, i))
                                      ELSE @[i]]]
    /\ UNCHANGED regVars
    /\ UNCHANGED runVars
    /\ UNCHANGED <<opts, fatal, loops>>

\* the items that are buffered or in a closed batch that waits for dispatch
Waiting(a) ==
    {a.open[i] : i \in 1..Len(a.open)}
    \cup UNION {{a.closed[j].items[i] : i \in 1..Len(a.closed[j].items)} :
                   j \in 1..Len(a.closed)}

\* mutant: shutdown fails the waiting items and leaves their batches queued
ShutdownBatchesKept(a) == a.closed

\* shutdown drops the batches whose items it has failed
ShutdownBatches(a) == <<>>

\* shutdown: every item not yet handed to the dispatch collaborator resolves
\* to the shutdown error; later calls of Enqueue are rejected
Shutdown ==
    /\ ~agg.shutdown
    /\ agg' = [agg EXCEPT
                  !.shutdown = TRUE,
                  !.open = <<>>,
                  !.closed = ShutdownBatches(agg),
                  !.results = [i \in DOMAIN @ |->
                                  IF i \in Waiting(agg)
                                  THEN Append(@[i], ShutdownError) ELSE @[i]]]
    /\ UNCHANGED regVars
    /\ UNCHANGED runVars
    /\ UNCHANGED <<opts, fatal, loops>>

(* --------------------------- specifications --------------------------- *)

Register ==
    \/ \E c \in Callers, subscription \in Subscriptions : Call(c, subscription)
    \/ \E c \in Callers : CheckRegistered(c)
    \/ \E c \in Callers : ReleaseRead(c)
    \/ \E c \in Callers : LockPending(c)
    \/ \E c \in Callers : LockAcquired(c)
    \/ \E c \in Callers : Insert(c)
    \/ \E c \in Callers : ReleaseWrite(c)
    \/ MapCall
    \/ MapWait

Consume ==
    \/ \E k \in DOMAIN tasks : BuildHandler(k)
    \/ \E k \in DOMAIN tasks : Receive(k)
    \/ \E k \in DOMAIN tasks : Deliver(k)
    \/ \E k \in DOMAIN tasks : \E m \in tasks[k].inflight : HandlerReturn(k, m)
    \/ \E k \in DOMAIN tasks : ReceiveReturn(k)

Next ==
    \/ Register
    \/ Run
    \/ \E ctx \in DOMAIN loops : RunRange(ctx)
    \/ Close
    \/ \E id \in SubscriptionIDs : Publish(id)
    \/ Consume
    \/ \E k \in DOMAIN tasks : ReceiveFail(k)

Spec == Init /\ [][Next]_vars

\* a Subscriber made without interceptors
InitPlain == Init /\ opts = <<>>

\* registration alone: concurrent callers and one HandleSubscriptionFuncMap
SpecReg == InitPlain /\ [][Register]_vars

\* the handles the client of the consumption scenarios registers
ClientSubscriptions == {"x1", "y1"}

ClientIDs == {ID(subscription) : subscription \in ClientSubscriptions}

\* the client goroutine is not inside a registration call nor inside Run
ClientIdle ==
    /\ \A c \in Callers : pc[c] \in {"idle", "done"}
    /\ loops = <<>>

\* One client goroutine sets the Subscriber up and then runs it, one call
\* after the other, the way the tests do: it registers handlers, calls Run,
\* and from then on only calls Run and Close; messages are published to the
\* client's subscriptions between its calls, and the goroutines started by
\* Run go on concurrently.
ClientNext ==
    \/ /\ ClientIdle
       /\ ctxCount = 0
       /\ \E c \in Callers, subscription \in ClientSubscriptions : Call(c, subscription)
    \/ \E c \in Callers : CheckRegistered(c)
    \/ \E c \in Callers : ReleaseRead(c)
    \/ \E c \in Callers : LockPending(c)
    \/ \E c \in Callers : LockAcquired(c)
    \/ \E c \in Callers : Insert(c)
    \/ \E c \in Callers : ReleaseWrite(c)
    \/ ClientIdle /\ Run
    \/ \E ctx \in DOMAIN loops : RunRange(ctx)
    \/ ClientIdle /\ Close
    \/ ClientIdle /\ \E id \in ClientIDs : Publish(id)
    \/ Consume

SpecSeq == InitPlain /\ [][ClientNext]_vars

\* the same client when it keeps to the lifecycle: it calls Run once
OnceNext ==
    \/ /\ ClientIdle
       /\ ctxCount = 0
       /\ \E c \in Callers, subscription \in ClientSubscriptions : Call(c, subscription)
    \/ \E c \in Callers : CheckRegistered(c)
    \/ \E c \in Callers : ReleaseRead(c)
    \/ \E c \in Callers : LockPending(c)
    \/ \E c \in Callers : LockAcquired(c)
    \/ \E c \in Callers : Insert(c)
    \/ \E c \in Callers : ReleaseWrite(c)
    \/ ClientIdle /\ ctxCount = 0 /\ Run
    \/ \E ctx \in DOMAIN loops : RunRange(ctx)
    \/ ClientIdle /\ Close
    \/ ClientIdle /\ \E id \in ClientIDs : Publish(id)
    \/ Consume

SpecOnce == Init /\ [][OnceNext]_vars

\* the same client when the broker may fail a Receive
FailNext ==
    \/ OnceNext
    \/ \E k \in DOMAIN tasks : ReceiveFail(k)

SpecFail == InitPlain /\ [][FailNext]_vars

\* the client that publishes through Publishers with interceptors
PublishNext ==
    \/ /\ ClientIdle
       /\ ctxCount = 0
       /\ \E c \in Callers, subscription \in ClientSubscriptions : Call(c, subscription)
    \/ \E c \in Callers : CheckRegistered(c)
    \/ \E c \in Callers : ReleaseRead(c)
    \/ \E c \in Callers : LockPending(c)
    \/ \E c \in Callers : LockAcquired(c)
    \/ \E c \in Callers : Insert(c)
    \/ \E c \in Callers : ReleaseWrite(c)
    \/ ClientIdle /\ ctxCount = 0 /\ Run
    \/ \E ctx \in DOMAIN loops : RunRange(ctx)
    \/ ClientIdle /\ Close
    \/ /\ ClientIdle
       /\ \E id \in ClientIDs :
              \E interceptors \in SeqsUpTo(PublishInterceptorNames, MaxInterceptors) :
                  PublisherPublish(id, interceptors)
    \/ Consume

SpecPublish == InitPlain /\ [][PublishNext]_vars

\* the interceptors of the middleware packages
Middleware == {"autoack"} \cup SlogInterceptors

\* a Subscriber made with middleware interceptors
InitMiddleware ==
    /\ subscriptionHandlers = <<>>
    /\ mu = [readerCount |-> 0, writer |-> 0, locked |-> FALSE]
    /\ opts \in SeqsUpTo(Middleware, MaxInterceptors)
    /\ cancel = 0
    /\ pc = [c \in Callers |-> "idle"]
    /\ arg = [c \in Callers |-> "x1"]
    /\ ret = [c \in Callers |-> NilError]
    /\ eg = [state |-> "idle", members |-> {}, err |-> NilError]
    /\ ctxCount = 0
    /\ cancelled = {}
    /\ tasks = <<>>
    /\ receiveActive = {}
    /\ queue = [id \in SubscriptionIDs |-> <<>>]
    /\ published = 0
    /\ closed = FALSE
    /\ handled = {}
    /\ agg = NewAggregator([count |-> 1, itemMax |-> 1, bufMax |-> 1])
    /\ fatal = FALSE
    /\ loops = <<>>

\* its client registers one subscription, calls Run once and publishes
MiddlewareNext ==
    \/ /\ ClientIdle
       /\ ctxCount = 0
       /\ \E c \in Callers : Call(c, "x1")
    \/ \E c \in Callers : CheckRegistered(c)
    \/ \E c \in Callers : ReleaseRead(c)
    \/ \E c \in Callers : LockPending(c)
    \/ \E c \in Callers : LockAcquired(c)
    \/ \E c \in Callers : Insert(c)
    \/ \E c \in Callers : ReleaseWrite(c)
    \/ ClientIdle /\ ctxCount = 0 /\ Run
    \/ \E ctx \in DOMAIN loops : RunRange(ctx)
    \/ ClientIdle /\ Publish("x")
    \/ \E k \in DOMAIN tasks : BuildHandler(k)
    \/ \E k \in DOMAIN tasks : Receive(k)
    \/ \E k \in DOMAIN tasks : Deliver(k)
    \/ \E k \in DOMAIN tasks : \E m \in tasks[k].inflight : HandlerReturn(k, m)

SpecMiddleware == InitMiddleware /\ [][MiddlewareNext]_vars

\* a batch aggregator under every configuration, used by concurrent producers
InitBatch ==
    /\ subscriptionHandlers = <<>>
    /\ mu = [readerCount |-> 0, writer |-> 0, locked |-> FALSE]
    /\ opts = <<>>
    /\ cancel = 0
    /\ pc = [c \in Callers |-> "idle"]
    /\ arg = [c \in Callers |-> "x1"]
    /\ ret = [c \in Callers |-> NilError]
    /\ eg = [state |-> "idle", members |-> {}, err |-> NilError]
    /\ ctxCount = 0
    /\ cancelled = {}
    /\ tasks = <<>>
    /\ receiveActive = {}
    /\ queue = [id \in SubscriptionIDs |-> <<>>]
    /\ published = 0
    /\ closed = FALSE
    /\ handled = {}
    /\ agg \in {NewAggregator(conf) : conf \in Configurations}
    /\ fatal = FALSE
    /\ loops = <<>>

BatchNext ==
    \/ \E size \in 1..MaxSize : Enqueue(size)
    \/ DelayFlush
    \/ StartDispatch
    \/ agg.busy /= <<>> /\ \E outcome \in Outcomes(agg.busy[1]) : DispatchReturn(outcome)
    \/ Shutdown

SpecBatch == InitBatch /\ [][BatchNext]_vars

\* the timer fires, the flush task runs and the dispatch collaborator returns
BatchFairness ==
    /\ WF_vars(DelayFlush)
    /\ WF_vars(StartDispatch)
    /\ WF_vars(agg.busy /= <<>> /\ \E outcome \in Outcomes(agg.busy[1]) : DispatchReturn(outcome))

LiveBatch == InitBatch /\ [][BatchNext]_vars /\ BatchFairness

\* the client of the liveness claim: it registers, calls Run once and never
\* calls Close, so no context is cancelled and no Receive returns
LiveNext ==
    \/ /\ ClientIdle
       /\ ctxCount = 0
       /\ \E c \in Callers, subscription \in ClientSubscriptions : Call(c, subscription)
    \/ \E c \in Callers : CheckRegistered(c)
    \/ \E c \in Callers : ReleaseRead(c)
    \/ \E c \in Callers : LockPending(c)
    \/ \E c \in Callers : LockAcquired(c)
    \/ \E c \in Callers : Insert(c)
    \/ \E c \in Callers : ReleaseWrite(c)
    \/ ClientIdle /\ ctxCount = 0 /\ Run
    \/ \E ctx \in DOMAIN loops : RunRange(ctx)
    \/ ClientIdle /\ \E id \in ClientIDs : Publish(id)
    \/ \E k \in DOMAIN tasks : BuildHandler(k)
    \/ \E k \in DOMAIN tasks : Receive(k)
    \/ \E k \in DOMAIN tasks : Deliver(k)
    \/ \E k \in DOMAIN tasks : \E m \in tasks[k].inflight : HandlerReturn(k, m)

TaskKeys == (1..MaxRuns) \X SubscriptionIDs

\* the Go scheduler runs every runnable goroutine, and the broker delivers
\* every message to a subscription that is being received
Fairness ==
    \A k \in TaskKeys :
        /\ WF_vars(BuildHandler(k))
        /\ WF_vars(Receive(k))
        /\ WF_vars(Deliver(k))
        /\ WF_vars(k \in DOMAIN tasks /\ \E m \in tasks[k].inflight : HandlerReturn(k, m))

LiveSpec == Init /\ [][LiveNext]_vars /\ Fairness

(* ------------------------------ claims -------------------------------- *)

Started == {c \in Callers : pc[c] /= "idle"}

Returned == {c \in Callers : pc[c] = "done"}

CallsFor(id) == {c \in Started : ID(arg[c]) = id}

\* C1: of the HandleSubscriptionFunc calls made with one subscription id,
\* once all have returned, exactly one has returned nil and every other the
\* already-registered error; at no time have two of them returned nil.
C1_ExactlyOneSuccess ==
    \A id \in SubscriptionIDs :
        LET won == {c \in CallsFor(id) \cap Returned : ret[c] = NilError}
        IN  /\ Cardinality(won) <= 1
            /\ (CallsFor(id) /= {} /\ CallsFor(id) \subseteq Returned)
                   => Cardinality(won) = 1

\* C2: an id that is mapped to a handler stays mapped to that same handler:
\* no step removes the entry or stores another one under the id.
C2_EntryNeverReplaced ==
    [][\A id \in DOMAIN subscriptionHandlers :
           /\ id \in DOMAIN subscriptionHandlers'
           /\ subscriptionHandlers'[id] = subscriptionHandlers[id]]_vars

\* what invoking I1(I2(...In(H)...)) on a message does: the pre-logic of
\* I1..In in that order, H seeing the attribute written last, the post-logic
\* of In..I1
ExpectedTrace(interceptors, handleFunc, attr) ==
    LET n == Len(interceptors)
    IN  [i \in 1..(2 * n + 1) |->
            IF i <= n
            THEN [ev |-> "pre", by |-> interceptors[i], attr |-> interceptors[i]]
            ELSE IF i = n + 1
            THEN [ev |-> "handle", by |-> handleFunc,
                  attr |-> IF n = 0 THEN attr ELSE interceptors[n]]
            ELSE [ev |-> "post", by |-> interceptors[2 * n + 2 - i],
                  attr |-> interceptors[2 * n + 2 - i]]]

\* C3: every handler invocation runs the interceptors' pre-logic in the order
\* they were configured, then the registered handler, then the post-logic in
\* the reverse order; the handler sees the attribute written by the last
\* interceptor, and with no interceptor it is the only thing that runs.
C3_InterceptorOrder ==
    \A h \in handled :
        h.trace = ExpectedTrace(opts, tasks[h.task].handleFunc, "none")

\* a message was handled under two different interceptors [A, B]
C3_Witness ==
    /\ Len(opts) = 2
    /\ opts[1] /= opts[2]
    /\ handled /= {}

\* C4: once Close has cancelled a running Subscriber, no handler invocation
\* begins for a message published after that.
C4_NoHandlingAfterClose ==
    /\ \A k \in DOMAIN tasks : \A m \in tasks[k].inflight : ~m.late
    /\ \A h \in handled : ~h.late

\* C5: when Close returns, the context of every goroutine that any earlier
\* Run started is cancelled.
C5_CloseCancelsAllTasks ==
    [][Close => \A k \in DOMAIN tasks : tasks[k].ctx \in cancelled']_vars

\* the messages published to subscription id so far: each is waiting in the
\* broker, in a callback that has not returned, or handled
PublishedTo(id) ==
    {queue[id][i].n : i \in 1..Len(queue[id])}
    \cup UNION {{m.n : m \in {r \in tasks[k].inflight : r.sub = id}} :
                  k \in DOMAIN tasks}
    \cup {h.n : h \in {r \in handled : r.sub = id}}

\* C6: a message published to a subscription whose handler was registered
\* when Run was called is eventually handled, when Close is never called: no
\* published message is ever lost, and from some point on every message
\* published to a subscription that has a goroutine has been handled by the
\* handler of that subscription.
C6_EveryMessageHandled ==
    /\ [](UNION {PublishedTo(id) : id \in SubscriptionIDs} = 1..published)
    /\ <>[](\A id \in SubscriptionIDs :
               <<1, id>> \in DOMAIN tasks =>
                   \A n \in PublishedTo(id) :
                       \E h \in handled : h.n = n /\ h.info.SubscriptionID = id)

\* two messages of one subscription have been handled: the counter is at 2
C6_Witness ==
    \E id \in SubscriptionIDs :
        Cardinality({h \in handled : h.info.SubscriptionID = id}) = 2

\* C7: when the calls made so far have pairwise distinct ids, none has
\* returned an error, none has left a read lock behind, every call that has
\* stored its entry finds it in the registry, and once all have returned the
\* registry has exactly one entry per call.
DistinctIds == \A c, d \in Started : c /= d => ID(arg[c]) /= ID(arg[d])

C7_DistinctAllSucceed ==
    DistinctIds =>
        /\ \A c \in Callers : ret[c] = NilError
        /\ eg.err = NilError
        /\ mu.readerCount = Cardinality({c \in Callers : pc[c] = "runlock"})
        /\ \A c \in Callers : pc[c] \in {"unlock", "done"} =>
               /\ ID(arg[c]) \in DOMAIN subscriptionHandlers
               /\ subscriptionHandlers[ID(arg[c])] = Entry(c)
        /\ Started \subseteq Returned =>
               Cardinality(DOMAIN subscriptionHandlers) = Cardinality(Started)

\* every id has been registered by its own call and all calls have returned
C7_Witness ==
    /\ DistinctIds
    /\ Started \subseteq Returned
    /\ DOMAIN subscriptionHandlers = SubscriptionIDs

\* C8: a call for an id that has a handler returns the error naming the id
\* and leaves the registry as it was; a call for an id without a handler
\* returns no error; and a call made while no other call is in progress is
\* not kept waiting at the presence check.
C8_DuplicateRejected ==
    /\ [][\A c \in Callers :
            (pc[c] = "rlock" /\ pc'[c] /= "rlock") =>
                IF ID(arg[c]) \in DOMAIN subscriptionHandlers
                THEN /\ pc'[c] = "done"
                     /\ ret'[c] = [kind |-> "already registered", id |-> ID(arg[c])]
                     /\ subscriptionHandlers' = subscriptionHandlers
                ELSE /\ pc'[c] /= "done"
                     /\ ret'[c] = [kind |-> "nil", id |-> ""]]_vars
    /\ [][\A c \in Callers : ret'[c] /= ret[c] => pc[c] = "rlock"]_vars
    /\ [](\A c \in Callers :
            (pc[c] = "rlock" /\ \A d \in Callers \ {c} : pc[d] \in {"idle", "done"})
                => ENABLED CheckRegistered(c))

\* a call made after the id was registered has returned the error, with no
\* other call in progress
C8_Witness ==
    \E c \in Callers :
        /\ pc[c] = "done"
        /\ ret[c].kind = "already registered"
        /\ \A d \in Callers \ {c} : pc[d] \in {"idle", "done"}

\* C9: HandleSubscriptionFuncMap returns an error exactly if one of its
\* registrations returned one, and then every entry of the call whose
\* registration returned nil is in the registry.
C9_MapErrorKeepsEntries ==
    eg.state = "returned" =>
        /\ eg.err /= NilError <=> \E c \in eg.members : ret[c] /= NilError
        /\ eg.err /= NilError =>
               \A c \in eg.members : ret[c] = NilError =>
                   /\ ID(arg[c]) \in DOMAIN subscriptionHandlers
                   /\ subscriptionHandlers[ID(arg[c])] = Entry(c)

\* C10: once Close has cancelled the Subscriber, no step starts a goroutine
\* for a subscription again.
C10_NoRestartAfterClose ==
    [][closed => DOMAIN tasks' = DOMAIN tasks]_vars


(* C11: when the Receive of one subscription returns an error that is not a
   cancellation, only the goroutine of that subscription ends, with the error
   logged: the step cancels no context, leaves s.cancel and every other
   goroutine as they were, and as long as Close has not been called every
   other goroutine that is receiving can still take the next message of its
   own subscription. *)
Failed(k) == tasks[k].pc = "exited" /\ tasks[k].err = PullError

C11_TaskIsolation ==
    /\ [][\A k \in DOMAIN tasks :
            (tasks[k].pc = "receiving" /\ tasks'[k].pc = "exited"
                /\ tasks'[k].err = PullError)
            => /\ cancelled' = cancelled
               /\ cancel' = cancel
               /\ \A j \in DOMAIN tasks \ {k} : tasks'[j] = tasks[j]]_vars
    /\ [](\A k, j \in DOMAIN tasks :
            (/\ Failed(k)
             /\ j /= k
             /\ ~closed
             /\ tasks[j].pc = "receiving"
             /\ queue[ID(tasks[j].subscription)] /= <<>>
             /\ Cardinality(tasks[j].inflight) < MaxOutstanding)
            => ENABLED Deliver(j))

\* the Receive of one subscription has failed with messages still queued,
\* and the goroutine of another subscription is handling a message
C11_Witness ==
    \E k, j \in DOMAIN tasks :
        /\ Failed(k)
        /\ queue[k[2]] /= <<>>
        /\ j /= k
        /\ ~closed
        /\ tasks[j].pc = "receiving"
        /\ tasks[j].inflight /= {}

(* C12: when the effective handler returns an error, the callback neither
   acks nor nacks the message, and the error stops nothing: the step leaves
   the goroutine receiving, cancels no context and ends no Receive, and the
   goroutine can still take the next message of its subscription. *)
C12_HandlerErrorIgnored ==
    /\ [](\A h \in handled : h.err /= NilError => h.acks = << >>)
    /\ [][\A k \in DOMAIN tasks : \A m \in tasks[k].inflight :
            (HandlerReturn(k, m) /\ Invoke(tasks[k].last, m).err /= NilError)
            => /\ tasks'[k].pc = tasks[k].pc
               /\ tasks'[k].err = tasks[k].err
               /\ cancelled' = cancelled
               /\ receiveActive' = receiveActive]_vars
    /\ [](\A k \in DOMAIN tasks :
            (/\ \E h \in handled : h.task = k /\ h.err /= NilError
             /\ tasks[k].pc = "receiving"
             /\ tasks[k].ctx \notin cancelled
             /\ queue[ID(tasks[k].subscription)] /= <<>>
             /\ Cardinality(tasks[k].inflight) < MaxOutstanding)
            => ENABLED Deliver(k))

\* a goroutine whose handler returned an error for one message has handled a
\* message published later
C12_Witness ==
    \E h1, h2 \in handled :
        /\ h1.task = h2.task
        /\ h1.err /= NilError
        /\ h1.n < h2.n
        /\ h2.err = NilError

(* C13: in every reachable state each subscription has at most one
   consumption goroutine that was started and has not ended, and once Run has
   returned every registered subscription has a goroutine started by the
   latest Run (none when nothing is registered). *)
ActiveTasks(id) == {k \in DOMAIN tasks : k[2] = id /\ tasks[k].pc /= "exited"}

C13_OneTaskPerSubscription ==
    /\ \A id \in SubscriptionIDs : Cardinality(ActiveTasks(id)) <= 1
    /\ (ctxCount > 0 /\ loops = <<>>) =>
           {k[2] : k \in {t \in DOMAIN tasks : t[1] = ctxCount}}
               = DOMAIN subscriptionHandlers

(* C14: within the goroutine of one subscription the handler runs on one
   message at a time and in delivery order: no two invocations of one
   subscription's goroutine overlap, and no message is still waiting in the
   subscription while the handler has been started on a message that was
   delivered after it. *)
C14_OneAtATime ==
    \A k \in DOMAIN tasks :
        /\ Cardinality(tasks[k].inflight) <= 1
        /\ \A m \in tasks[k].inflight :
               \A i \in 1..Len(queue[m.sub]) : m.n < queue[m.sub][i].n

(* C15: the presence check and the insert of one registration happen inside
   one exclusive section of the lock, so a caller that has passed the check
   and has not inserted yet holds the lock exclusively, and no two callers
   are inserting at once. *)
C15_RegistrySerialized ==
    /\ \A c \in Callers :
           pc[c] \in {"runlock", "lock", "lockwait", "insert"}
               => mu.locked /\ mu.writer = c
    /\ Cardinality({c \in Callers : pc[c] \in {"insert", "unlock"}}) <= 1

(* C16: each configured interceptor is applied exactly once per goroutine,
   when the goroutine builds its chain: the build step yields one layer per
   configured interceptor around the registered handleFunc and neither
   handles nor pulls a message, and no later step (no delivery, no handler
   return) changes the chain. *)
C16_ChainBuiltOnce ==
    [][\A k \in DOMAIN tasks :
          IF tasks[k].pc = "build" /\ tasks'[k].pc /= "build"
          THEN /\ tasks'[k].last.layers = opts
               /\ tasks'[k].last.handleFunc = tasks[k].handleFunc
               /\ tasks'[k].inflight = {}
               /\ handled' = handled
               /\ queue' = queue
          ELSE tasks'[k].last = tasks[k].last]_vars

\* a goroutine built its chain of two interceptors and has handled two
\* messages with it
C16_Witness ==
    \E k \in DOMAIN tasks :
        /\ Len(opts) = 2
        /\ tasks[k].pc = "receiving"
        /\ tasks[k].last.layers = opts
        /\ Cardinality({h \in handled : h.task = k}) = 2

(* C17: the goroutine of a subscription wraps the handler registered for
   that subscription and passes that subscription's id in SubscriptionInfo:
   a message published to X is handled only in the goroutine of X, with
   SubscriptionID X, by the handleFunc registered under X. *)
C17_OwnHandlerOwnInfo ==
    /\ \A k \in DOMAIN tasks :
           /\ ID(tasks[k].subscription) = k[2]
           /\ tasks[k].info.SubscriptionID = k[2]
           /\ tasks[k].handleFunc = subscriptionHandlers[k[2]].handleFunc
           /\ tasks[k].last.handleFunc = subscriptionHandlers[k[2]].handleFunc
           /\ \A m \in tasks[k].inflight : m.sub = k[2]
    /\ \A h \in handled :
           /\ h.task[2] = h.sub
           /\ h.info.SubscriptionID = h.sub
           /\ \A i \in 1..Len(h.trace) :
                  h.trace[i].ev = "handle"
                      => h.trace[i].by = subscriptionHandlers[h.sub].handleFunc

\* messages of two subscriptions with different handlers have been handled
C17_Witness ==
    \E h1, h2 \in handled :
        /\ h1.sub /= h2.sub
        /\ subscriptionHandlers[h1.sub].handleFunc
               /= subscriptionHandlers[h2.sub].handleFunc

(* C18: Publisher.Publish runs the publish interceptors so that the first
   registered is outermost and the publish itself innermost: when every
   interceptor overwrites the data, the published message carries the data of
   the last registered interceptor, and without interceptors the data is
   published unchanged. *)
C18_PublishInterceptorOrder ==
    [][\A id \in ClientIDs :
          \A interceptors \in SeqsUpTo(PublishInterceptorNames, MaxInterceptors) :
              PublisherPublish(id, interceptors)
              => LET m == queue'[id][Len(queue'[id])]
                 IN  m.data = IF interceptors = <<>> THEN "test"
                              ELSE interceptors[Len(interceptors)]]_vars

\* one message was published without interceptors and one through
\* interceptors of which P2 was registered last
C18_Witness ==
    \E id \in ClientIDs :
        /\ Len(queue[id]) = 2
        /\ queue[id][1].data = "test"
        /\ queue[id][2].data = "P2"

\* the error the handleFunc of the goroutine returned for a handled message
HandlerErr(h) == HandleFunc(tasks[h.task].handleFunc, [n |-> h.n])

HandleEvent(h) ==
    [ev |-> "handle", by |-> tasks[h.task].handleFunc, attr |-> "none"]

Reverse(s) == [i \in 1..Len(s) |-> s[Len(s) + 1 - i]]

(* C19: for every message pm_autoack calls next exactly once and then makes
   exactly one acknowledgement, Ack when next returned no error and Nack when
   it returned one, never before next has returned, and returns next's
   error: the handler runs once, before every acknowledgement, each
   pm_autoack layer of the chain acknowledges once according to the
   handler's error, and the chain returns that error. *)
C19_AutoAck ==
    \A h \in handled :
        LET acts == SelectSeq(h.trace, LAMBDA e : e.ev \in {"handle", "ack", "nack"})
            layers == SelectSeq(opts, LAMBDA i : i = "autoack")
        IN  /\ h.err = HandlerErr(h)
            /\ acts = << HandleEvent(h) >> \o
                    [i \in 1..Len(layers) |->
                        [ev |-> IF HandlerErr(h) /= NilError THEN "nack" ELSE "ack",
                         by |-> "autoack", attr |-> "none"]]

\* under a chain with pm_autoack one message was nacked after its handler
\* returned an error and another was acked after its handler returned nil
C19_Witness ==
    \E h1, h2 \in handled :
        /\ h1.err /= NilError
        /\ \E i \in 1..Len(h1.trace) : h1.trace[i].ev = "nack"
        /\ h2.err = NilError
        /\ \E i \in 1..Len(h2.trace) : h2.trace[i].ev = "ack"

LevelFor(err) == IF err /= NilError THEN "ERROR" ELSE "INFO"

(* C20 as stated: for every message pm_slog calls next exactly once, returns
   next's error, and emits exactly one log entry when the log decider returns
   true and none when it returns false; with the default options the entry
   is at ERROR when next returned an error and at INFO otherwise. *)
C20_OneEntryPerDecision ==
    \A h \in handled :
        LET acts == SelectSeq(h.trace, LAMBDA e : e.ev \in {"handle", "log"})
            layers == SelectSeq(opts, LAMBDA i : i \in SlogInterceptors
                                                    /\ ShouldLog(i, HandlerErr(h)))
        IN  /\ h.err = HandlerErr(h)
            /\ acts = << HandleEvent(h) >> \o
                    [i \in 1..Len(layers) |->
                        [ev |-> "log", by |-> Reverse(layers)[i],
                         attr |-> LevelFor(HandlerErr(h))]]

(* C20 amended: pm_slog calls next exactly once, returns next's error, and
   calls the message producer once when the log decider returns true and not
   at all when it returns false; the default producer logs at ERROR when next
   returned an error and at INFO otherwise, and the entry is emitted exactly
   when the logger's handler is enabled for that level. *)
C20_OneEntryWhenEnabled ==
    \A h \in handled :
        LET acts == SelectSeq(h.trace, LAMBDA e : e.ev \in {"handle", "log"})
            layers == SelectSeq(opts, LAMBDA i :
                          /\ i \in SlogInterceptors
                          /\ ShouldLog(i, HandlerErr(h))
                          /\ Enabled(i, LevelFor(HandlerErr(h))))
        IN  /\ h.err = HandlerErr(h)
            /\ acts = << HandleEvent(h) >> \o
                    [i \in 1..Len(layers) |->
                        [ev |-> "log", by |-> Reverse(layers)[i],
                         attr |-> LevelFor(HandlerErr(h))]]

\* under a logger enabled from ERROR, one message whose handler returned an
\* error produced one entry at ERROR and one whose handler returned nil
\* produced none
C20_Witness ==
    /\ opts = << "slog.error" >>
    /\ \E h1, h2 \in handled :
           /\ h1.err /= NilError
           /\ SelectSeq(h1.trace, LAMBDA e : e.ev = "log")
                  = << [ev |-> "log", by |-> "slog.error", attr |-> "ERROR"] >>
           /\ h2.err = NilError
           /\ SelectSeq(h2.trace, LAMBDA e : e.ev = "log") = << >>

\* the items Enqueue has accepted
Accepted == {i \in DOMAIN agg.ret : agg.ret[i] = "accepted"}

\* nothing is buffered, waits for dispatch or is being dispatched
Quiescent == agg.open = <<>> /\ agg.closed = <<>> /\ agg.busy = <<>>

(* C21: every item Enqueue accepted has its result slot resolved exactly
   once: never twice in any state, never for a rejected item, once for each
   when nothing is pending any more, and, the producers making finitely many
   calls, from some time on once for every accepted item; the items still
   waiting at shutdown resolve to the shutdown error. *)
C21_ResolvedExactlyOnce ==
    /\ [](\A i \in DOMAIN agg.results :
             /\ Len(agg.results[i]) <= 1
             /\ i \notin Accepted => agg.results[i] = <<>>)
    /\ [](Quiescent => \A i \in Accepted : Len(agg.results[i]) = 1)
    /\ [][(~agg.shutdown /\ agg'.shutdown)
             => \A i \in Waiting(agg) : agg'.results[i] = << ShutdownError >>]_vars
    /\ <>[](\A i \in Accepted : Len(agg.results[i]) = 1)

\* after shutdown nothing is pending, one item was resolved by a dispatch
\* and another by the shutdown
C21_Witness ==
    /\ agg.shutdown
    /\ Quiescent
    /\ \E i, j \in Accepted :
           /\ agg.results[i] = << Success >>
           /\ agg.results[j] = << ShutdownError >>

\* the item of the latest call of Enqueue
Latest(a) == Len(a.ret)

\* the items of the batches that were closed and not yet resolved
InBatches(a) ==
    UNION {{a.closed[j].items[i] : i \in 1..Len(a.closed[j].items)} :
              j \in 1..Len(a.closed)}
    \cup UNION {{a.busy[j].items[i] : i \in 1..Len(a.busy[j].items)} :
                    j \in 1..Len(a.busy)}

(* C22: in every reachable state the total size of the pending items is at
   most the buffered-size ceiling, and a call of Enqueue that would exceed
   the ceiling returns an error at once and leaves the open batch, the closed
   batches and every result slot as they were. *)
C22_BufferedWithinCeiling ==
    /\ [](Buffered(agg) <= agg.conf.bufMax)
    /\ [][\A size \in 1..MaxSize :
            (Enqueue(size) /\ Buffered(agg) + size > agg.conf.bufMax)
            => /\ agg'.ret[Latest(agg')] /= "accepted"
               /\ agg'.results[Latest(agg')] = <<>>
               /\ agg'.open = agg.open
               /\ agg'.closed = agg.closed
               /\ agg'.busy = agg.busy]_vars

\* an item that fits the per-item maximum was rejected because the buffer,
\* which still holds an item, would have exceeded the ceiling
C22_Witness ==
    /\ agg.ret /= <<>>
    /\ agg.ret[Latest(agg)] = "BufferOverflow"
    /\ agg.open /= <<>>
    /\ Buffered(agg) + agg.sizes[Latest(agg)] > agg.conf.bufMax

(* C23: a call of Enqueue with an item larger than the per-item maximum
   returns an error at call time, and the item is never in the open batch,
   in a closed batch or in a batch handed to the dispatch collaborator, and
   its result slot is never resolved. *)
C23_OversizedRejected ==
    \A i \in DOMAIN agg.ret :
        agg.sizes[i] > agg.conf.itemMax
        => /\ agg.ret[i] \in {"OversizedItem", "Shutdown"}
           /\ i \notin Waiting(agg) \cup InBatches(agg)
           /\ agg.results[i] = <<>>

\* an oversized item was rejected while the aggregator was running, and an
\* item enqueued after it was accepted and dispatched
C23_Witness ==
    \E i, j \in DOMAIN agg.ret :
        /\ i < j
        /\ agg.sizes[i] > agg.conf.itemMax
        /\ agg.ret[i] = "OversizedItem"
        /\ agg.ret[j] = "accepted"
        /\ agg.results[j] /= <<>>

\* the items of a batch
Items(b) == {b.items[i] : i \in 1..Len(b.items)}

(* C24: when the dispatch of a batch returns a per-item error mapping, each
   item it names resolves to its own error and every other item of the batch
   to success; when it fails wholesale every item resolves to the same
   dispatch failure; when it succeeds every item resolves to success; the
   result slots of the items of other batches are not touched. *)
C24_DispatchOutcomes ==
    [][agg.busy /= <<>> =>
          \A outcome \in Outcomes(agg.busy[1]) :
              DispatchReturn(outcome) =>
                  \A i \in DOMAIN agg.results :
                      agg'.results[i] =
                          IF i \notin Items(agg.busy[1]) THEN agg.results[i]
                          ELSE IF outcome.kind = "failure"
                          THEN << [kind |-> "BatchDispatchFailure", of |-> 0] >>
                          ELSE IF outcome.kind = "items" /\ i \in outcome.named
                          THEN << [kind |-> "BatchItemError", of |-> i] >>
                          ELSE << [kind |-> "success", of |-> 0] >>]_vars

\* the three outcomes have happened: two items of one batch resolved to an
\* item error and to success, and an item of another batch to the dispatch
\* failure
C24_Witness ==
    \E i, j, k \in Accepted :
        /\ agg.results[i] = << BatchItemError(i) >>
        /\ agg.results[j] = << Success >>
        /\ agg.results[k] = << BatchDispatchFailure >>
        /\ agg.conf.count = 2

\* the items of a sequence are in the order of their Enqueue calls
InEnqueueOrder(items) ==
    \A i, j \in 1..Len(items) : i < j => items[i] < items[j]

(* C25: at most one dispatch call is in progress at a time; a dispatch call
   takes a batch that was closed and is waiting, takes it out of the waiting
   batches, and takes the one closed earliest; and in every batch, open,
   waiting or dispatched, the items are in enqueue order. *)
C25_DispatchOrder ==
    /\ [](/\ Len(agg.busy) <= 1
          /\ InEnqueueOrder(agg.open)
          /\ \A j \in 1..Len(agg.closed) : InEnqueueOrder(agg.closed[j].items)
          /\ \A j \in 1..Len(agg.busy) : InEnqueueOrder(agg.busy[j].items)
          /\ \A j \in 1..Len(agg.busy) : \A l \in 1..Len(agg.closed) :
                 agg.busy[j].seq < agg.closed[l].seq)
    /\ [][agg'.ndispatched /= agg.ndispatched
            => /\ agg.busy = <<>>
               /\ Len(agg'.busy) = 1
               /\ \E j \in 1..Len(agg.closed) : agg.closed[j] = agg'.busy[1]
               /\ \A j \in 1..Len(agg.closed) : agg.closed[j].seq >= agg'.busy[1].seq
               /\ \A j \in 1..Len(agg'.closed) : agg'.closed[j].seq > agg'.busy[1].seq
               /\ Len(agg'.closed) = Len(agg.closed) - 1]_vars

\* the second batch is being dispatched while a third, closed after it, waits
C25_Witness ==
    /\ Len(agg.busy) = 1
    /\ agg.busy[1].seq = 2
    /\ agg.ndispatched = 2
    /\ agg.closed /= <<>>

\* the batches that were closed and whose dispatch has not returned
ClosedBatches == {agg.closed[j] : j \in 1..Len(agg.closed)}
                 \cup {agg.busy[j] : j \in 1..Len(agg.busy)}

(* C26 as stated: with count threshold N a batch is closed either by the
   count, with exactly N items and without waiting for the delay, or, when
   fewer than N items were accepted, by the delay of its oldest item. *)
C26_CountOrDelay ==
    \A b \in ClosedBatches :
        \/ Len(b.items) = agg.conf.count /\ b.trigger = "count"
        \/ Len(b.items) < agg.conf.count /\ b.trigger = "delay"

(* C26 amended: as long as the buffered size stays below the buffered-size
   maximum, a batch is closed by the count with exactly N items, at the
   Enqueue of the N-th, or by the delay with fewer than N; a batch whose
   buffered size reaches the maximum is closed at once with the items it
   has. The open batch never holds N items, and every item is in at most one
   batch. *)
C26_CountSizeOrDelay ==
    /\ Len(agg.open) < agg.conf.count
    /\ \A b \in ClosedBatches :
           \/ /\ b.trigger = "count"
              /\ Len(b.items) = agg.conf.count
           \/ /\ b.trigger = "size"
              /\ Len(b.items) \in 1..(agg.conf.count - 1)
              /\ SumSizes(agg.sizes, b.items) = agg.conf.bufMax
           \/ /\ b.trigger = "delay"
              /\ Len(b.items) \in 1..(agg.conf.count - 1)
              /\ SumSizes(agg.sizes, b.items) < agg.conf.bufMax
    /\ \A b, c \in ClosedBatches \cup {[seq |-> 0, items |-> agg.open, trigger |-> "none"]} :
           b /= c => Items(b) \cap Items(c) = {}
    /\ \A i \in Accepted :
           agg.results[i] = <<>> => i \in Waiting(agg) \cup InBatches(agg)

\* two items below the size maximum were flushed by the count, and a later
\* single item by the delay
C26_Witness ==
    /\ agg.conf.count = 2
    /\ \E b, c \in ClosedBatches :
           /\ b.trigger = "count"
           /\ SumSizes(agg.sizes, b.items) < agg.conf.bufMax
           /\ c.trigger = "delay"
           /\ b.seq < c.seq

\* no call of HandleSubscriptionFunc is in progress
NoCallInProgress == \A c \in Callers : pc[c] \in {"idle", "done"}

(* C27: HandleSubscriptionFunc releases the lock on every return path: when
   no call is in progress the lock is free, with no reader and no writer,
   and a call that is alone and waits for the exclusive lock gets it. *)
C27_LockReleased ==
    /\ NoCallInProgress =>
           mu.readerCount = 0 /\ mu.writer = 0 /\ ~mu.locked
    /\ \A c \in Callers :
           (pc[c] = "lockwait" /\ \A d \in Callers \ {c} : pc[d] \in {"idle", "done"})
               => ENABLED LockAcquired(c)

\* a step of a call that is in progress, or the return of eg.Wait
Progress ==
    \/ \E c \in Callers : CheckRegistered(c)
    \/ \E c \in Callers : ReleaseRead(c)
    \/ \E c \in Callers : LockPending(c)
    \/ \E c \in Callers : LockAcquired(c)
    \/ \E c \in Callers : Insert(c)
    \/ \E c \in Callers : ReleaseWrite(c)
    \/ MapWait

(* C28: HandleSubscriptionFuncMap always returns: while eg.Wait has not
   returned, one of the goroutines that are registering can take a step or
   eg.Wait can return, so no goroutine is blocked on the lock for ever. *)
C28_MapReturns ==
    eg.state = "waiting" => ENABLED Progress

(* C29: Close can be called in every state; on a Subscriber on which Run was
   never called it changes nothing, so the goroutines of a later first Run
   start with a context that is not cancelled; and a Close that follows a
   Close changes nothing. *)
C29_CloseSafe ==
    /\ [](ENABLED Close)
    /\ [][(Close /\ cancel = 0) => UNCHANGED vars]_vars
    /\ [][(Close /\ cancel \in cancelled) => UNCHANGED vars]_vars
    /\ [](~closed => cancelled = {})

\* Run was called once and consumed a message, Close has cancelled its
\* context and its goroutines have ended, and Close can be called again
C29_Witness ==
    /\ closed
    /\ cancel \in cancelled
    /\ handled /= {}
    /\ tasks /= <<>>
    /\ \A k \in DOMAIN tasks : tasks[k].pc = "exited"
    /\ ENABLED Close

====
